---- MODULE Spec2Model ----
(***************************************************************************)
(* gtasks (src/main.go): a single-shot command-line client for a remote    *)
(* task-list service.  One invocation of main reads the client secret,     *)
(* obtains an OAuth2 token (from token.json or from the web flow), fetches *)
(* the task lists, resolves the list name given on the command line and    *)
(* runs one command.  Spec is one invocation from any starting token.json  *)
(* and remote tasks; SessionSpec lets check and uncheck invocations follow *)
(* it, up to MaxRuns invocations against the same file and the same tasks. *)
(***************************************************************************)
EXTENDS Integers, Sequences, FiniteSets, TLC

\* ---------------------------------------------------------------- bounds
MaxRuns == 2        \* invocations of the program in one session
MaxLists == 2       \* task lists in one Tasklists.List response
TokenTTL == 1       \* lifetime of a fresh access token, in clock ticks

MaxTime == MaxRuns + TokenTTL

\* ---------------------------------------------------------------- data
Commands == {"add", "list", "check", "uncheck", "delete"}
Titles == {"", "Inbox"}
ListIds == {"", "L1", "L2"}
ListNames == {"", "Inbox", "inbox"}
TaskIdSeq == <<"t1", "t2">>
TaskIds == {TaskIdSeq[k] : k \in 1..Len(TaskIdSeq)}
Statuses == {"needsAction", "completed"}

\* *oauth2.Token as main.go holds it in memory
Token(a, ty, r, e) ==
  [AccessToken |-> a, TokenType |-> ty, RefreshToken |-> r, Expiry |-> e]

\* tok := &oauth2.Token{}
ZeroToken == Token("", "", "", 0)

\* time.Time <-> its RFC 3339 text in token.json
FormatTime(n) == ToString(n)
ParseTime(s) ==
  IF \E n \in 0..MaxTime : ToString(n) = s
    THEN CHOOSE n \in 0..MaxTime : ToString(n) = s
    ELSE 0

\* json.NewEncoder(f).Encode(token): the members of the JSON object, as a set of
\* <<key, text>>; token_type and refresh_token are omitempty
Encode(t) ==
  {<<"access_token", t.AccessToken>>, <<"expiry", FormatTime(t.Expiry)>>}
    \cup (IF t.TokenType = "" THEN {} ELSE {<<"token_type", t.TokenType>>})
    \cup (IF t.RefreshToken = "" THEN {} ELSE {<<"refresh_token", t.RefreshToken>>})

Member(obj, k) ==
  IF \E p \in obj : p[1] = k THEN (CHOOSE p \in obj : p[1] = k)[2] ELSE ""

\* json.NewDecoder(f).Decode(tok): absent members keep the zero value
Decode(obj) ==
  Token(Member(obj, "access_token"), Member(obj, "token_type"),
        Member(obj, "refresh_token"),
        IF \E p \in obj : p[1] = "expiry" THEN ParseTime(Member(obj, "expiry")) ELSE 0)

\* token.json on disk
NoFile == [state |-> "absent", obj |-> {}]
CorruptFile == [state |-> "corrupt", obj |-> {}]
JsonFile(t) == [state |-> "json", obj |-> Encode(t)]

\* func tokenFromFile: the token and whether err != nil
tokenFromFile(file) ==
  IF file.state = "json"
    THEN [tok |-> Decode(file.obj), err |-> FALSE]
    ELSE [tok |-> ZeroToken, err |-> TRUE]

\* (variant: the web flow is entered whatever tokenFromFile returned)
getClientBranchAlwaysWeb(err) == "getTokenFromWeb"

\* getClient, "if err != nil": where control goes after tokenFromFile
getClientBranch(err) == IF err THEN "getTokenFromWeb" ELSE "newService"

\* saveToken after a successful OpenFile (O_TRUNC): what the file holds once
\* Encode has run; the result of Encode is discarded
saveTokenFile(t, written) == IF written THEN JsonFile(t) ELSE CorruptFile

\* saveToken: where control goes after Encode; its error is not looked at
saveTokenNext(written) == "newService"

\* oauth2.Token.Valid at clock n
Valid(t, n) == t.AccessToken /= "" /\ (t.Expiry = 0 \/ t.Expiry > n)

\* config.Client(ctx, tok): the transport reuses a valid token and refreshes an
\* invalid one in memory, which needs a refresh token and a reachable endpoint
Transport(t, n, endpointOk) ==
  IF Valid(t, n) THEN [ok |-> TRUE, tok |-> t, refreshed |-> FALSE]
  ELSE IF t.RefreshToken = "" \/ ~endpointOk
    THEN [ok |-> FALSE, tok |-> t, refreshed |-> FALSE]
    ELSE [ok |-> TRUE,
          tok |-> [t EXCEPT !.AccessToken = "ar", !.Expiry = n + TokenTTL],
          refreshed |-> TRUE]

\* (variant: a refresh is written back to token.json)
TransportFileSaving(file, tr) == IF tr.refreshed THEN JsonFile(tr.tok) ELSE file

\* config.Client never writes token.json
TransportFile(file, tr) == file

\* flag.Arg(i)
Arg(argv, i) == IF i < Len(argv) THEN argv[i + 1] ELSE ""

\* for _, item := range tasklists.Items { tasklistIds[item.Title] = item.Id }
\* as the set of <<title, id>> the map ends with (last write wins)
RECURSIVE BuildIds(_, _)
BuildIds(items, m) ==
  IF items = <<>> THEN m
  ELSE BuildIds(Tail(items),
                {p \in m : p[1] /= Head(items).Title}
                  \cup {<<Head(items).Title, Head(items).Id>>})

\* (variant: an unknown name is used as the identifier)
LookupFallback(m, name) ==
  IF \E p \in m : p[1] = name THEN (CHOOSE p \in m : p[1] = name)[2] ELSE name

\* tasklistIds[tasklistName]: the zero value "" for an absent key
Lookup(m, name) ==
  IF \E p \in m : p[1] = name THEN (CHOOSE p \in m : p[1] = name)[2] ELSE ""

\* (variant: a default case that deletes)
SwitchDefaultDelete(c) == IF c \in Commands THEN c ELSE "delete"

\* switch cmd
SwitchTarget(c) == IF c \in Commands THEN c ELSE "return"

\* (variant: case "check" falls through into the update of case "uncheck")
CaseFallthrough(c) == IF c = "check" THEN "uncheckUpdate" ELSE "exited"

\* the end of a case: Go leaves the switch, main returns
CaseEnd(c) == "exited"

\* (variant: the error of Tasks.Get is not looked at)
AfterGetIgnoringErr(err, next) == next

\* check / uncheck, "if err != nil" after Tasks.Get
AfterGet(err, next) == IF err THEN "exited" ELSE next

\* the remote service
Task(l, i, ti, no, du, st) ==
  [list |-> l, id |-> i, title |-> ti, notes |-> no, due |-> du, status |-> st]
ZeroTask == Task("", "", "", "", "", "")
TasksAt(rt, l, i) == {x \in rt : x.list = l /\ x.id = i}
FreeIds(rt, l) == {i \in TaskIds : TasksAt(rt, l, i) = {}}
RemoteInsert(rt, l, t) ==
  LET n == CHOOSE j \in 1..Len(TaskIdSeq) :
             /\ TaskIdSeq[j] \in FreeIds(rt, l)
             /\ \A k \in 1..(j - 1) : TaskIdSeq[k] \notin FreeIds(rt, l)
      i == TaskIdSeq[n]
  IN rt \cup {Task(l, i, t.title, t.notes, t.due,
                   IF t.status = "" THEN "needsAction" ELSE t.status)}
RemoteUpdate(rt, l, i, t) ==
  (rt \ TasksAt(rt, l, i)) \cup {[t EXCEPT !.list = l, !.id = i]}
RemoteDelete(rt, l, i) == rt \ TasksAt(rt, l, i)

\* case "check": task.Status = "completed"
Checked(t) == [t EXCEPT !.status = "completed"]

\* (variant: a new task is written instead of the fetched one)
UncheckedFresh(t) == [ZeroTask EXCEPT !.status = "needsAction"]

\* case "uncheck": task.Status = "needsAction"
Unchecked(t) == [t EXCEPT !.status = "needsAction"]

\* ---------------------------------------------------------------- inputs
RECURSIVE SeqsUpTo(_, _)
SeqsUpTo(S, n) ==
  IF n = 0 THEN {<<>>}
  ELSE LET shorter == SeqsUpTo(S, n - 1)
       IN shorter \cup {Append(q, x) : q \in shorter, x \in S}

\* what Tasklists.List can answer: tasklists.Items
ListResponses == SeqsUpTo([Title : Titles, Id : ListIds], MaxLists)

\* os.Args[1:]
CmdWords == Commands \cup {"sync"}
ArgvSet ==
  {<<>>} \cup {<<c>> : c \in CmdWords}
    \cup {<<c, n>> : c \in CmdWords, n \in ListNames}
    \cup {<<c, n, x>> : c \in CmdWords, n \in ListNames, x \in {"t1"}}
    \cup {<<"add", "Inbox", "t1", "n">>, <<"add", "Inbox", "t1", "n", "d">>}

\* os.Args[1:] of the invocations that follow the first one in a session
SessionArgv ==
  {<<c, n, x>> : c \in {"check", "uncheck"}, n \in {"Inbox"}, x \in {"t1"}}

\* token.json before the first invocation
InitFiles ==
  {NoFile, CorruptFile, JsonFile(ZeroToken),
   JsonFile(Token("a0", "Bearer", "r0", 0)),
   JsonFile(Token("a0", "Bearer", "r0", 1)),
   JsonFile(Token("a0", "Bearer", "", 1))}

\* the remote tasks before the first invocation
InitTasks ==
  {{}} \cup {{Task(l, "t1", "milk", "n", "", s)} : l \in {"L1", "L2"}, s \in Statuses}

\* ---------------------------------------------------------------- state
VARIABLES
  pc,           \* where main is: "shell" before the first invocation
  runs,         \* invocations started; also the clock
  argv,         \* os.Args[1:]
  exitCode,     \* -1 while running, then the exit status
  tokenFile,    \* token.json
  tok,          \* the token getClient holds, then the transport's token
  tasklists,    \* tasklists.Items, as the set of its items
  tasklistIds,  \* map title -> id
  cmd, tasklistName, tasklistId,
  task,         \* the task Tasks.Get returned
  remoteTasks,  \* the tasks held by the remote service
  ev,           \* this invocation's steps: <<kind, list, task, succeeded>>
  preTasks,     \* remoteTasks when this invocation started
  preFile,      \* tokenFile when this invocation started
  prev          \* the previous invocation, when it was a successful check

vars == <<pc, runs, argv, exitCode, tokenFile, tok, tasklists, tasklistIds, cmd,
          tasklistName, tasklistId, task, remoteTasks, ev, preTasks, preFile, prev>>

NoPrev == [check |-> FALSE, list |-> "", id |-> "", pre |-> {}]
taskId == Arg(argv, 2)
E(kind, l, i, ok) == <<kind, l, i, ok>>

Init ==
  /\ pc = "shell" /\ runs = 0 /\ argv = <<>> /\ exitCode = -1
  /\ tokenFile \in InitFiles
  /\ tok = ZeroToken
  /\ tasklists = {} /\ tasklistIds = {}
  /\ cmd = "" /\ tasklistName = "" /\ tasklistId = ""
  /\ task = ZeroTask
  /\ remoteTasks \in InitTasks
  /\ ev = <<>>
  /\ preTasks = remoteTasks /\ preFile = tokenFile
  /\ prev = NoPrev

\* log.Fatalf: the step failed, the process exits with status 1
Fatal(e) == pc' = "exited" /\ exitCode' = 1 /\ ev' = Append(ev, e)

\* a process of the program starts with arguments a
Start(a) ==
  /\ argv' = a
  /\ pc' = "readSecret" /\ runs' = runs + 1 /\ exitCode' = -1
  /\ tok' = ZeroToken /\ tasklists' = {} /\ tasklistIds' = {}
  /\ cmd' = "" /\ tasklistName' = "" /\ tasklistId' = "" /\ task' = ZeroTask
  /\ ev' = <<>> /\ preTasks' = remoteTasks /\ preFile' = tokenFile
  /\ prev' = IF cmd = "check" /\ exitCode = 0
               THEN [check |-> TRUE, list |-> tasklistId, id |-> taskId,
                     pre |-> TasksAt(preTasks, tasklistId, taskId)]
               ELSE NoPrev
  /\ UNCHANGED <<tokenFile, remoteTasks>>

\* the shell starts the program
Invoke ==
  /\ pc = "shell"
  /\ \E a \in ArgvSet : Start(a)

\* the shell starts the program again, with a check or an uncheck
Reinvoke ==
  /\ pc = "exited" /\ runs < MaxRuns
  /\ \E a \in SessionArgv : Start(a)

\* main: os.ReadFile(credentials.json)
ReadSecret ==
  /\ pc = "readSecret"
  /\ \/ Fatal(E("ReadFile", "", "", FALSE))
     \/ pc' = "parseSecret" /\ ev' = Append(ev, E("ReadFile", "", "", TRUE))
          /\ UNCHANGED exitCode
  /\ UNCHANGED <<runs, argv, tokenFile, tok, tasklists, tasklistIds, cmd,
                 tasklistName, tasklistId, task, remoteTasks, preTasks, preFile, prev>>

\* main: google.ConfigFromJSON
ConfigFromJSON ==
  /\ pc = "parseSecret"
  /\ \/ Fatal(E("ConfigFromJSON", "", "", FALSE))
     \/ pc' = "tokenFromFile" /\ ev' = Append(ev, E("ConfigFromJSON", "", "", TRUE))
          /\ UNCHANGED exitCode
  /\ UNCHANGED <<runs, argv, tokenFile, tok, tasklists, tasklistIds, cmd,
                 tasklistName, tasklistId, task, remoteTasks, preTasks, preFile, prev>>

\* getClient: tok, err := tokenFromFile(tokFile)
TokenFromFile ==
  /\ pc = "tokenFromFile"
  /\ LET r == tokenFromFile(tokenFile)
     IN /\ tok' = r.tok
        /\ ev' = Append(ev, E("tokenFromFile", "", "", ~r.err))
        /\ pc' = getClientBranch(r.err)
  /\ UNCHANGED <<runs, argv, exitCode, tokenFile, tasklists, tasklistIds, cmd,
                 tasklistName, tasklistId, task, remoteTasks, preTasks, preFile, prev>>

\* getTokenFromWeb: print the URL, fmt.Scan the code, config.Exchange
GetTokenFromWeb ==
  /\ pc = "getTokenFromWeb"
  /\ LET prompted == Append(ev, E("prompt", "", "", TRUE))
     IN \/ /\ pc' = "exited" /\ exitCode' = 1 /\ UNCHANGED tok
           /\ ev' = Append(prompted, E("Scan", "", "", FALSE))
        \/ /\ pc' = "exited" /\ exitCode' = 1 /\ UNCHANGED tok
           /\ ev' = Append(Append(prompted, E("Scan", "", "", TRUE)),
                           E("Exchange", "", "", FALSE))
        \/ /\ pc' = "saveToken" /\ UNCHANGED exitCode
           /\ tok' = Token("ax", "Bearer", "rx", runs + TokenTTL)
           /\ ev' = Append(Append(prompted, E("Scan", "", "", TRUE)),
                           E("Exchange", "", "", TRUE))
  /\ UNCHANGED <<runs, argv, tokenFile, tasklists, tasklistIds, cmd,
                 tasklistName, tasklistId, task, remoteTasks, preTasks, preFile, prev>>

\* saveToken: OpenFile (fatal on error), then Encode (error discarded)
SaveToken ==
  /\ pc = "saveToken"
  /\ \/ Fatal(E("OpenFile", "", "", FALSE)) /\ UNCHANGED tokenFile
     \/ \E written \in BOOLEAN :
          /\ tokenFile' = saveTokenFile(tok, written)
          /\ ev' = Append(Append(ev, E("OpenFile", "", "", TRUE)),
                          E("Encode", "", "", written))
          /\ pc' = saveTokenNext(written)
          /\ exitCode' = IF pc' = "exited" THEN 1 ELSE exitCode
  /\ UNCHANGED <<runs, argv, tok, tasklists, tasklistIds, cmd,
                 tasklistName, tasklistId, task, remoteTasks, preTasks, preFile, prev>>

\* main: tasks.NewService
NewService ==
  /\ pc = "newService"
  /\ \/ Fatal(E("NewService", "", "", FALSE))
     \/ pc' = "tasklistsList" /\ ev' = Append(ev, E("NewService", "", "", TRUE))
          /\ UNCHANGED exitCode
  /\ UNCHANGED <<runs, argv, tokenFile, tok, tasklists, tasklistIds, cmd,
                 tasklistName, tasklistId, task, remoteTasks, preTasks, preFile, prev>>

\* the steps a request through the transport adds: a refresh when there was one
Through(tr, e) ==
  IF tr.refreshed THEN Append(Append(ev, E("refresh", "", "", TRUE)), e)
  ELSE Append(ev, e)

\* main: srv.Tasklists.List().Do() and the loop that fills tasklistIds
TasklistsList ==
  /\ pc = "tasklistsList"
  /\ \E endpointOk \in BOOLEAN :
       LET tr == Transport(tok, runs, endpointOk)
       IN /\ tok' = tr.tok
          /\ tokenFile' = TransportFile(tokenFile, tr)
          /\ \/ /\ pc' = "exited" /\ exitCode' = 1
                /\ ev' = Through(tr, E("Tasklists.List", "", "", FALSE))
                /\ UNCHANGED <<tasklists, tasklistIds>>
             \/ /\ tr.ok
                /\ \E items \in ListResponses :
                     /\ tasklists' = {items[k] : k \in DOMAIN items}
                     /\ tasklistIds' = BuildIds(items, {})
                /\ pc' = "resolve" /\ UNCHANGED exitCode
                /\ ev' = Through(tr, E("Tasklists.List", "", "", TRUE))
  /\ UNCHANGED <<runs, argv, cmd, tasklistName, tasklistId, task, remoteTasks,
                 preTasks, preFile, prev>>

\* main: flag.Parse and the lookup of the list name
Resolve ==
  /\ pc = "resolve"
  /\ cmd' = Arg(argv, 0)
  /\ tasklistName' = Arg(argv, 1)
  /\ tasklistId' = Lookup(tasklistIds, Arg(argv, 1))
  /\ IF tasklistId' = ""
       THEN Fatal(E("resolve", "", "", FALSE))
       ELSE /\ pc' = "switch" /\ UNCHANGED exitCode
            /\ ev' = Append(ev, E("resolve", tasklistId', "", TRUE))
  /\ UNCHANGED <<runs, argv, tokenFile, tok, tasklists, tasklistIds, task,
                 remoteTasks, preTasks, preFile, prev>>

\* a task request: the transport, then the service
Request(kind, i, serviceOk, okPc, errPc, newRemote, newTask) ==
  \E net \in BOOLEAN, endpointOk \in (IF Valid(tok, runs) THEN {TRUE} ELSE BOOLEAN) :
    LET tr == Transport(tok, runs, endpointOk)
        ok == tr.ok /\ net /\ serviceOk
    IN /\ tok' = tr.tok
       /\ tokenFile' = TransportFile(tokenFile, tr)
       /\ ev' = Through(tr, E(kind, tasklistId, i, ok))
       /\ pc' = IF ok THEN okPc ELSE errPc
       /\ exitCode' = IF pc' = "exited" THEN (IF ok THEN 0 ELSE 1) ELSE exitCode
       /\ remoteTasks' = IF ok THEN newRemote ELSE remoteTasks
       /\ task' = IF ok THEN newTask ELSE task
       /\ UNCHANGED <<runs, argv, tasklists, tasklistIds, cmd, tasklistName,
                      tasklistId, preTasks, preFile, prev>>

\* case "add"
Add ==
  /\ pc = "switch" /\ SwitchTarget(cmd) = "add"
  /\ LET notes == IF Len(argv) > 3 THEN Arg(argv, 3) ELSE ""
         due == IF Len(argv) > 4 THEN Arg(argv, 4) ELSE ""
         t == Task("", "", Arg(argv, 2), notes, due, "")
     IN Request("Insert", "", FreeIds(remoteTasks, tasklistId) /= {}, CaseEnd("add"), "exited",
                IF FreeIds(remoteTasks, tasklistId) /= {}
                  THEN RemoteInsert(remoteTasks, tasklistId, t) ELSE remoteTasks,
                task)

\* case "list"
List ==
  /\ pc = "switch" /\ SwitchTarget(cmd) = "list"
  /\ Request("List", "", TRUE, CaseEnd("list"), "exited", remoteTasks, task)

Exists == TasksAt(remoteTasks, tasklistId, taskId) /= {}
Fetched == IF Exists THEN CHOOSE x \in TasksAt(remoteTasks, tasklistId, taskId) : TRUE
           ELSE task

\* case "check": task, err := srv.Tasks.Get(tasklistId, taskId).Do()
CheckGet ==
  /\ pc = "switch" /\ SwitchTarget(cmd) = "check"
  /\ Request("Get", taskId, Exists, AfterGet(FALSE, "checkUpdate"),
             AfterGet(TRUE, "checkUpdate"), remoteTasks, Fetched)

\* case "check": task.Status = "completed"; srv.Tasks.Update(...)
CheckUpdate ==
  /\ pc = "checkUpdate"
  /\ Request("Update", taskId, Exists, CaseEnd("check"), "exited",
             RemoteUpdate(remoteTasks, tasklistId, taskId, Checked(task)),
             Checked(task))

\* case "uncheck": task, err := srv.Tasks.Get(tasklistId, taskId).Do()
UncheckGet ==
  /\ pc = "switch" /\ SwitchTarget(cmd) = "uncheck"
  /\ Request("Get", taskId, Exists, AfterGet(FALSE, "uncheckUpdate"),
             AfterGet(TRUE, "uncheckUpdate"), remoteTasks, Fetched)

\* case "uncheck": task.Status = "needsAction"; srv.Tasks.Update(...)
UncheckUpdate ==
  /\ pc = "uncheckUpdate"
  /\ Request("Update", taskId, Exists, CaseEnd("uncheck"), "exited",
             RemoteUpdate(remoteTasks, tasklistId, taskId, Unchecked(task)),
             Unchecked(task))

\* case "delete"
Delete ==
  /\ pc = "switch" /\ SwitchTarget(cmd) = "delete"
  /\ Request("Delete", taskId, Exists, CaseEnd("delete"), "exited",
             RemoteDelete(remoteTasks, tasklistId, taskId), task)

\* no case matches: main returns
Return ==
  /\ pc = "switch" /\ SwitchTarget(cmd) = "return"
  /\ pc' = "exited" /\ exitCode' = 0
  /\ UNCHANGED <<runs, argv, tokenFile, tok, tasklists, tasklistIds, cmd,
                 tasklistName, tasklistId, task, remoteTasks, ev, preTasks,
                 preFile, prev>>

Next ==
  \/ Invoke \/ ReadSecret \/ ConfigFromJSON \/ TokenFromFile \/ GetTokenFromWeb
  \/ SaveToken \/ NewService \/ TasklistsList \/ Resolve
  \/ Add \/ List \/ CheckGet \/ CheckUpdate \/ UncheckGet \/ UncheckUpdate
  \/ Delete \/ Return

Spec == Init /\ [][Next]_vars

SessionNext == Next \/ Reinvoke

SessionSpec == Init /\ [][SessionNext]_vars

\* ---------------------------------------------------------------- properties
TaskCallKinds == {"Insert", "List", "Get", "Update", "Delete"}
MutatingKinds == {"Insert", "Update", "Delete"}
RemoteKinds == TaskCallKinds \cup {"Tasklists.List", "refresh"}

At(K) == {i \in DOMAIN ev : ev[i][1] \in K}
Ok(K) == {i \in At(K) : ev[i][4]}
Failed(K) == {i \in At(K) : ~ev[i][4]}
\* every step of a kind in K comes after a successful step of a kind in J
After(K, J) == \A i \in At(K) : \E j \in Ok(J) : j < i
TitlesOf(items) == {x.Title : x \in items}
IdsTitled(items, name) == {x.Id : x \in {y \in items : y.Title = name}}

\* C1: when token.json exists and decodes, getClient never enters the
\* interactive branch: no URL is printed, no code is read or exchanged, and
\* saveToken is not called (token.json is left as it was).
C1_CachedNeverPrompts ==
  (pc /= "shell" /\ preFile.state = "json")
    => /\ At({"prompt", "Scan", "Exchange", "OpenFile", "Encode"}) = {}
       /\ pc \notin {"getTokenFromWeb", "saveToken"}
       /\ tokenFile = preFile

C1_Witness ==
  /\ pc = "exited" /\ exitCode = 0
  /\ preFile.state = "json" /\ Ok({"tokenFromFile"}) /= {}

\* C2 (as claimed): when token.json is missing or corrupt the web flow is
\* entered once, and once the code is exchanged and saveToken has returned,
\* token.json loads again and gives back the same access_token, refresh_token,
\* token_type and expiry.
C2_SavedTokenLoads ==
  (pc /= "shell" /\ preFile.state /= "json")
    => /\ Cardinality(At({"prompt"})) <= 1
       /\ Cardinality(At({"Exchange"})) <= 1
       /\ (Ok({"Exchange"}) /= {} /\ At({"Encode"}) /= {})
            => /\ ~tokenFromFile(tokenFile).err
               /\ tokenFromFile(tokenFile).tok = tok

\* C3 (as claimed): a successful check followed by a successful uncheck of the
\* same task leaves the task as it was before the check, status included.
C3_RoundTrip ==
  (/\ pc = "exited" /\ exitCode = 0 /\ cmd = "uncheck"
   /\ prev.check /\ prev.list = tasklistId /\ prev.id = taskId)
    => TasksAt(remoteTasks, tasklistId, taskId) = prev.pre

\* C3 (amended): a successful check followed by a successful uncheck of the same
\* task leaves the task with status needsAction, whatever its status was before
\* the check, and with every other field as it was before the check.
C3_UncheckAfterCheck ==
  (/\ pc = "exited" /\ exitCode = 0 /\ cmd = "uncheck"
   /\ prev.check /\ prev.list = tasklistId /\ prev.id = taskId)
    => /\ Cardinality(prev.pre) = 1
       /\ TasksAt(remoteTasks, tasklistId, taskId)
            = {[x EXCEPT !.status = "needsAction"] : x \in prev.pre}

C3_Witness ==
  /\ pc = "exited" /\ exitCode = 0 /\ cmd = "uncheck"
  /\ prev.check /\ prev.list = tasklistId /\ prev.id = taskId
  /\ \E x \in prev.pre : x.status = "completed"

\* C4 (as claimed): a list name that is empty or is not the title of a remote
\* list ends the invocation in a fatal resolution error with no task call, and
\* a name that is the title of a remote list resolves to the identifier of a
\* list with that title.
C4_Resolution ==
  At({"resolve"}) /= {}
    => LET name == Arg(argv, 1)
       IN /\ (name = "" \/ name \notin TitlesOf(tasklists))
               => /\ Failed({"resolve"}) /= {}
                  /\ pc = "exited" /\ exitCode = 1
                  /\ At(TaskCallKinds) = {}
          /\ (name /= "" /\ name \in TitlesOf(tasklists))
               => /\ Ok({"resolve"}) /= {}
                  /\ tasklistId \in IdsTitled(tasklists, name)

\* C5: one invocation sends its task calls to one list identifier and sends at
\* most one of Insert, Update, Delete; list sends none of them; check and
\* uncheck send one Get and, only after it succeeded, at most one Update.
C5_OneListOneMutation ==
  /\ \A i, j \in At(TaskCallKinds) : ev[i][2] = ev[j][2]
  /\ Cardinality(At(MutatingKinds)) <= 1
  /\ Cardinality(At(TaskCallKinds)) <= 2
  /\ cmd = "list" => At(MutatingKinds) = {}
  /\ cmd \in {"check", "uncheck"}
       => /\ At({"Insert", "Delete", "List"}) = {}
          /\ Cardinality(At({"Get"})) <= 1
          /\ After({"Update"}, {"Get"})
  /\ cmd \notin {"check", "uncheck"} => Cardinality(At(TaskCallKinds)) <= 1

C5_Witness ==
  /\ pc = "exited" /\ exitCode = 0 /\ cmd = "check"
  /\ Ok({"Get"}) /= {} /\ Ok({"Update"}) /= {}

\* C6 (as claimed): a step that fails (other than the load of token.json, which
\* leads to the web flow) is the last step of the invocation: the process has
\* exited with a non-zero status and nothing ran after it.
C6_FailureIsFatal ==
  \A i \in DOMAIN ev :
    (~ev[i][4] /\ ev[i][1] /= "tokenFromFile")
      => i = Len(ev) /\ pc = "exited" /\ exitCode /= 0

C8_RefreshSaved ==
  (pc = "exited" /\ At({"refresh"}) /= {}) => tokenFile = JsonFile(tok)

\* C8 (amended): when the access token was refreshed during the invocation,
\* token.json is not written: it is the file the invocation started with and
\* still holds the expired token; the refreshed token is only in memory.
C8_RefreshNotSaved ==
  At({"refresh"}) /= {}
    => /\ tokenFile = preFile
       /\ tokenFile.state = "json"
       /\ ~Valid(tokenFromFile(tokenFile).tok, runs)
       /\ Valid(tok, runs)
       /\ tokenFromFile(tokenFile).tok /= tok

C8_Witness ==
  pc = "exited" /\ exitCode = 0 /\ At({"refresh"}) /= {}

\* C9: an invocation that resolved the list name and had no mutating call
\* succeed leaves the remote tasks as they were; after a Get that failed no
\* Update is sent.
C9_FailureLeavesTasks ==
  /\ (Ok({"resolve"}) /= {} /\ Ok(MutatingKinds) = {}) => remoteTasks = preTasks
  /\ Failed({"Get"}) /= {} => At({"Update"}) = {} /\ pc = "exited" /\ exitCode = 1
  /\ Failed(MutatingKinds) /= {} => remoteTasks = preTasks /\ exitCode = 1

C9_Witness ==
  /\ pc = "exited" /\ exitCode = 1 /\ cmd = "check"
  /\ Failed({"Get"}) /= {}
  /\ TasksAt(remoteTasks, tasklistId, taskId) /= {}

====
